---- MODULE Spec2Model ----
(***************************************************************************)
(* Model of src/yb/rpc/yb_rpc.cc: the YB RPC connection context (frame     *)
(* extraction from a connection's read buffer, construction and dispatch   *)
(* of inbound calls) and the inbound call (parse, respond, serialize).     *)
(***************************************************************************)
EXTENDS Integers, Sequences, FiniteSets, TLC

(***************************************************************************)
(* Bounds of the model and program constants.                              *)
(***************************************************************************)

\* Size of the length prefix of a frame (yb_rpc.h; used at yb_rpc.cc:62).
kMsgLengthPrefixLength == 4

\* The gflag rpc_max_message_size (yb_rpc.cc:25).  It is a run-time setting;
\* the model runs with a small value so that frames just below, exactly at
\* and just above the limit can be presented in full.
FLAGS_rpc_max_message_size == 11

\* Number of frames (catalogue segments) the peer writes to the connection.
MaxFrames == 2

\* Largest value the caller's `consumed` variable may hold when ProcessCalls
\* is entered (the out-parameter is not initialised by ProcessCalls).
MaxConsumedIn == 1

\* Sidecars attached to one call, and the largest sidecar size.
MaxSidecars == 2
MaxSidecarSize == 2

\* Responder invocations the environment makes on one call.
MaxResponds == 2

\* Frames the peer writes to a connection whose handlers run on worker threads.
MaxThreadFrames == 2

\* Bytes of a frame's body the peer has written behind its prefix when the
\* read hint is asked for.
MaxHintBody == 2

\* Latest arrival timestamp of a call, in nanoseconds of the monotonic clock,
\* and the largest timeout_millis a request header carries.
MaxTimeReceived == 3
MaxTimeoutMillis == 5

(***************************************************************************)
(* Byte sequences.                                                         *)
(***************************************************************************)

\* NetworkByteOrder::Load32 at offset pos (0-based) of byte sequence s.
Load32(s, pos) ==
  s[pos + 1] * 16777216 + s[pos + 2] * 65536 + s[pos + 3] * 256 + s[pos + 4]

\* The peer's encoding of a 32-bit length in network byte order.
Store32(n) ==
  << (n \div 16777216) % 256, (n \div 65536) % 256, (n \div 256) % 256, n % 256 >>

\* Slice(data + start, len) of byte sequence s (start 0-based).
SliceOf(s, start, len) == SubSeq(s, start + 1, start + len)

\* Bytes s with its first n bytes removed.
DropFirst(s, n) == SubSeq(s, n + 1, Len(s))

RECURSIVE SumSeq(_)
SumSeq(s) == IF s = << >> THEN 0 ELSE Head(s) + SumSeq(Tail(s))

RECURSIVE Pad(_)
Pad(n) == IF n <= 0 THEN << >> ELSE << 7 >> \o Pad(n - 1)

(***************************************************************************)
(* The request envelope (serialization::ParseYBMessage and the peer's      *)
(* encoder).  A body is <<hlen>> \o header \o payload; the header is a     *)
(* list of (tag, value) pairs: tag 1 call_id (required), tag 2             *)
(* remote_method (value 0: present, required names missing; value >= 1: a  *)
(* complete designator), tag 3 timeout_millis.                             *)
(***************************************************************************)
TagCallId == 1
TagRemoteMethod == 2
TagTimeout == 3

NoHeader ==
  [call_id |-> 0, has_call_id |-> FALSE,
   has_remote_method |-> FALSE, remote_method |-> 0,
   has_timeout_millis |-> FALSE, timeout_millis |-> 0]

\* The pairs of header bytes h that carry tag t, and the value of the last one
\* (a field given twice keeps its last value; 0 when absent).
PairsWithTag(h, t) == { i \in 1..(Len(h) \div 2) : h[2 * i - 1] = t }

HasTag(h, t) == PairsWithTag(h, t) # {}

LastValue(h, t) ==
  IF HasTag(h, t)
  THEN h[2 * (CHOOSE i \in PairsWithTag(h, t) : \A j \in PairsWithTag(h, t) : j <= i)]
  ELSE 0

\* Decode the header fields from the (tag, value) pairs of h; ok is FALSE
\* when a tag is unknown or a pair is cut short.
ParseHeaderFields(h) ==
  IF Len(h) % 2 # 0
     \/ \E i \in 1..(Len(h) \div 2) :
          h[2 * i - 1] \notin {TagCallId, TagRemoteMethod, TagTimeout}
  THEN [ok |-> FALSE, header |-> NoHeader]
  ELSE [ok |-> TRUE,
        header |-> [call_id |-> LastValue(h, TagCallId),
                    has_call_id |-> HasTag(h, TagCallId),
                    has_remote_method |-> HasTag(h, TagRemoteMethod),
                    remote_method |-> LastValue(h, TagRemoteMethod),
                    has_timeout_millis |-> HasTag(h, TagTimeout),
                    timeout_millis |-> LastValue(h, TagTimeout)]]

\* ParseYBMessage once the header bytes are decoded (r) and the payload is cut out.
EnvelopeResult(r, payload) ==
  IF ~r.ok \/ ~r.header.has_call_id
  THEN [status |-> "Corruption", header |-> NoHeader, serialized_request |-> << >>]
  ELSE [status |-> "OK", header |-> r.header, serialized_request |-> payload]

\* serialization::ParseYBMessage(source, &header, &serialized_request).
ParseYBMessage(source) ==
  IF Len(source) = 0 \/ source[1] > Len(source) - 1
  THEN [status |-> "Corruption", header |-> NoHeader, serialized_request |-> << >>]
  ELSE EnvelopeResult(ParseHeaderFields(SubSeq(source, 2, 1 + source[1])),
                      SubSeq(source, 2 + source[1], Len(source)))

\* RemoteMethodPB::IsInitialized(): both required names are set.
RemoteMethodIsInitialized(header) == header.remote_method >= 1

\* The peer's encoder of a request body.
EncodeHeader(h) ==
  (IF h.has_call_id THEN << TagCallId, h.call_id >> ELSE << >>)
  \o (IF h.has_remote_method THEN << TagRemoteMethod, h.remote_method >> ELSE << >>)
  \o (IF h.has_timeout_millis THEN << TagTimeout, h.timeout_millis >> ELSE << >>)

EncodeBody(h, payload) == << Len(EncodeHeader(h)) >> \o EncodeHeader(h) \o payload

\* One frame on the wire: [4-byte big-endian length][body].
Frame(body) == Store32(Len(body)) \o body


(***************************************************************************)
(* State.                                                                  *)
(***************************************************************************)
VARIABLES
  direction,            \* connection->direction(): "SERVER" or "CLIENT"
  wire,                 \* bytes the peer has written that have not arrived yet
  delivered,            \* every byte that has arrived on the connection, in order
  read_buffer,          \* the connection's unconsumed bytes
  consumed,             \* the caller's variable that ProcessCalls' out-parameter points to
  closed,               \* the caller closed the connection after an error
  last,                 \* record of the latest ProcessCalls invocation
  handed,               \* bodies passed to HandleCall over the connection's life
  calls,                \* live YBInboundCall objects, in order of construction
  calls_being_handled,  \* call ids registered by Store
  inbound_queue,        \* calls handed to Messenger::QueueInboundCall, in order
  outbound,             \* calls queued on the connection by QueueResponse, in order
  client_responses,     \* frames accepted by Connection::HandleCallResponse
  sent,                 \* buffers the connection obtained from the latest Serialize
  last_respond,         \* record of the latest Respond that reached QueueResponse
  deadline,             \* record of the latest GetClientDeadline invocation
  hint,                 \* record of the latest MaxReceive invocation
  reactor,              \* the ProcessCalls invocation the reactor thread is inside of
  crashed               \* the process aborted (a failed CHECK or a DFATAL in a debug build)

vars == << direction, wire, delivered, read_buffer, consumed, closed, last, handed,
           calls, calls_being_handled, inbound_queue, outbound, client_responses,
           sent, last_respond, deadline, hint, reactor, crashed >>

(***************************************************************************)
(* YBInboundCall: construction and ParseFrom.                              *)
(***************************************************************************)

\* response_buf_ before any responder ran.
EmptyBuf ==
  [size |-> 0, header_size |-> 0, message_size |-> 0, param_len |-> 0,
   length_prefix |-> 0, call_id |-> 0, is_error |-> FALSE, sidecar_offsets |-> << >>, payload |-> "none"]

\* YBInboundCall::YBInboundCall: a call that has parsed nothing yet.  responds
\* counts the Respond invocations that reached QueueResponse, serialized those
\* of them whose SerializeResponseBuffer succeeded.
NewCall ==
  [header |-> NoHeader, request_data |-> << >>, serialized_request |-> << >>,
   remote_method |-> 0, sidecars |-> << >>, response_buf |-> EmptyBuf,
   responds |-> 0, serialized |-> 0, time_received |-> 0]

\* ParseFrom accepting a header that carries no remote_method.
ParseFromChecks_NoMethodCheck(call, m) ==
  IF m.status # "OK" THEN [status |-> m.status, call |-> call]
  ELSE [status |-> "OK",
        call |-> [call EXCEPT !.header = m.header,
                              !.serialized_request = m.serialized_request,
                              !.remote_method = m.header.remote_method]]

\* ParseFrom after line 171: m is what ParseYBMessage returned.
ParseFromChecks(call, m) ==
  IF m.status # "OK" THEN [status |-> m.status, call |-> call]
  ELSE IF ~m.header.has_remote_method THEN [status |-> "Corruption", call |-> call]
  ELSE IF ~RemoteMethodIsInitialized(m.header) THEN [status |-> "Corruption", call |-> call]
  ELSE [status |-> "OK",
        call |-> [call EXCEPT !.header = m.header,
                              !.serialized_request = m.serialized_request,
                              !.remote_method = m.header.remote_method]]

\* YBInboundCall::ParseFrom(source): [status, call].
ParseFrom(call, source) ==
  ParseFromChecks([call EXCEPT !.request_data = source], ParseYBMessage(source))

(***************************************************************************)
(* YBConnectionContext: HandleCall and its two legs.  cs is the part of    *)
(* the connection's state a frame handler can change.                      *)
(***************************************************************************)

\* YBConnectionContext::ExtractCallId.
ExtractCallId(call) == call.header.call_id

\* ConnectionContextWithCallId::Store: register the call under its call id;
\* a call id that is already being handled is refused.
Store(cs, call) ==
  IF ExtractCallId(call) \in cs.calls_being_handled
  THEN [status |-> "NetworkError", cs |-> cs]
  ELSE [status |-> "OK",
        cs |-> [cs EXCEPT !.calls = Append(cs.calls, call),
                          !.calls_being_handled = @ \cup {ExtractCallId(call)}]]

\* Messenger::QueueInboundCall(call): hand call number idx to the dispatch boundary.
QueueInboundCall(cs, idx) == [cs EXCEPT !.inbound_queue = Append(@, idx)]

\* HandleInboundCall handing the call to the messenger before looking at what
\* Store returned.
HandleInboundCallStored_DispatchesFirst(cs, s) ==
  IF s.status # "OK"
  THEN [status |-> s.status, cs |-> QueueInboundCall(cs, Len(cs.calls) + 1),
        stored |-> FALSE, dispatched |-> TRUE]
  ELSE [status |-> "OK", cs |-> QueueInboundCall(s.cs, Len(s.cs.calls)),
        stored |-> TRUE, dispatched |-> TRUE]

\* HandleInboundCall from line 139: the call parsed, s is what Store returned.
HandleInboundCallStored(cs, s) ==
  IF s.status # "OK"
  THEN [status |-> s.status, cs |-> cs, stored |-> FALSE, dispatched |-> FALSE]
  ELSE [status |-> "OK", cs |-> QueueInboundCall(s.cs, Len(s.cs.calls)),
        stored |-> TRUE, dispatched |-> TRUE]

\* HandleInboundCall from line 135: p is what ParseFrom returned.
HandleInboundCallParsed(cs, p) ==
  IF p.status # "OK"
  THEN [status |-> p.status, cs |-> cs, stored |-> FALSE, dispatched |-> FALSE]
  ELSE HandleInboundCallStored(cs, Store(cs, p.call))

\* YBConnectionContext::HandleInboundCall(connection, call_data).
HandleInboundCall(cs, call_data) ==
  HandleInboundCallParsed(cs, ParseFrom(NewCall, call_data))

\* Connection::HandleCallResponse(call_data): the client leg's response matching.
HandleCallResponse(cs, call_data) ==
  IF ParseYBMessage(call_data).status # "OK"
  THEN [status |-> "Corruption", cs |-> cs, stored |-> FALSE, dispatched |-> FALSE]
  ELSE [status |-> "OK", cs |-> [cs EXCEPT !.client_responses = @ + 1],
        stored |-> FALSE, dispatched |-> FALSE]

\* YBConnectionContext::HandleCall(connection, call_data).
HandleCall(dir, cs, call_data) ==
  IF dir = "CLIENT" THEN HandleCallResponse(cs, call_data)
  ELSE HandleInboundCall(cs, call_data)

(***************************************************************************)
(* YBConnectionContext::ProcessCalls.  The loop runs from offset pos of    *)
(* slice; log lists, per frame handed to HandleCall, the slice passed      *)
(* (start, len), the status returned and what the handler did.             *)
(***************************************************************************)
RECURSIVE ProcessLoop(_, _, _, _, _)

\* What the loop records about one frame handed to HandleCall.
LogEntry(start, stop, r) ==
  [start |-> start, len |-> stop - start, status |-> r.status,
   stored |-> r.stored, dispatched |-> r.dispatched]

\* AfterHandleCall going on with the next frame whatever HandleCall returned.
AfterHandleCall_IgnoresStatus(dir, slice, start, stop, r, log) ==
  ProcessLoop(dir, slice, stop, r.cs, Append(log, LogEntry(start, stop, r)))

\* Lines 78-82: r is what HandleCall returned for Slice(start, stop - start).
AfterHandleCall(dir, slice, start, stop, r, log) ==
  IF r.status # "OK"
  THEN [status |-> r.status, pos |-> start, cs |-> r.cs,
        log |-> Append(log, LogEntry(start, stop, r))]
  ELSE ProcessLoop(dir, slice, stop, r.cs, Append(log, LogEntry(start, stop, r)))

\* ProcessFrame with the partial-frame break moving the cursor to the end of the
\* slice, so that the bytes of a partial frame count as consumed.
ProcessFrame_ConsumesPartial(dir, slice, pos, total_length, cs, log) ==
  IF total_length > FLAGS_rpc_max_message_size
  THEN [status |-> "NetworkError", pos |-> pos, cs |-> cs, log |-> log]
  ELSE IF pos + total_length > Len(slice)
  THEN [status |-> "OK", pos |-> Len(slice), cs |-> cs, log |-> log]
  ELSE AfterHandleCall(dir, slice, pos + kMsgLengthPrefixLength, pos + total_length,
                       HandleCall(dir, cs,
                                  SliceOf(slice, pos + kMsgLengthPrefixLength,
                                          (pos + total_length)
                                            - (pos + kMsgLengthPrefixLength))),
                       log)

\* ProcessFrame with the size limit tested only once the whole frame is there.
ProcessFrame_WaitsBeforeLimit(dir, slice, pos, total_length, cs, log) ==
  IF pos + total_length > Len(slice)
  THEN [status |-> "OK", pos |-> pos, cs |-> cs, log |-> log]
  ELSE IF total_length > FLAGS_rpc_max_message_size
  THEN [status |-> "NetworkError", pos |-> pos, cs |-> cs, log |-> log]
  ELSE AfterHandleCall(dir, slice, pos + kMsgLengthPrefixLength, pos + total_length,
                       HandleCall(dir, cs,
                                  SliceOf(slice, pos + kMsgLengthPrefixLength,
                                          (pos + total_length)
                                            - (pos + kMsgLengthPrefixLength))),
                       log)

\* ProcessFrame handing HandleCall the frame from its prefix on: the cursor is
\* not moved past the length prefix.
ProcessFrame_KeepsPrefix(dir, slice, pos, total_length, cs, log) ==
  IF total_length > FLAGS_rpc_max_message_size
  THEN [status |-> "NetworkError", pos |-> pos, cs |-> cs, log |-> log]
  ELSE IF pos + total_length > Len(slice)
  THEN [status |-> "OK", pos |-> pos, cs |-> cs, log |-> log]
  ELSE AfterHandleCall(dir, slice, pos, pos + total_length,
                       HandleCall(dir, cs, SliceOf(slice, pos, (pos + total_length) - pos)),
                       log)

\* Lines 64-77: one frame at offset pos whose prefix declares total_length.
\* (The slice handed to HandleCall and the status it returns are each
\* evaluated once: out ranges over the one value AfterHandleCall yields.)
ProcessFrame(dir, slice, pos, total_length, cs, log) ==
  IF total_length > FLAGS_rpc_max_message_size
  THEN [status |-> "NetworkError", pos |-> pos, cs |-> cs, log |-> log]
  ELSE IF pos + total_length > Len(slice)
  THEN [status |-> "OK", pos |-> pos, cs |-> cs, log |-> log]
  ELSE CHOOSE out \in
         { AfterHandleCall(dir, slice, pos + kMsgLengthPrefixLength, pos + total_length,
                           r, log) :
             r \in { HandleCall(dir, cs, call_data) :
                       call_data \in { SliceOf(slice, pos + kMsgLengthPrefixLength,
                                               (pos + total_length)
                                                 - (pos + kMsgLengthPrefixLength)) } } } :
         TRUE

\* Lines 62-83: the while loop, entered with the cursor at offset pos.
ProcessLoop(dir, slice, pos, cs, log) ==
  IF Len(slice) - pos >= kMsgLengthPrefixLength
  THEN ProcessFrame(dir, slice, pos, Load32(slice, pos) + kMsgLengthPrefixLength, cs, log)
  ELSE [status |-> "OK", pos |-> pos, cs |-> cs, log |-> log]

\* ProcessCalls writing the cursor's offset to *consumed on every return.
ProcessCallsReturn_AlwaysWrites(r, consumed_in) ==
  [status |-> r.status, consumed |-> r.pos, cs |-> r.cs, log |-> r.log]

\* ProcessCalls writing the cursor's offset to *consumed on an error return
\* that follows handled frames.
ProcessCallsReturn_WritesAfterHandled(r, consumed_in) ==
  [status |-> r.status,
   consumed |-> IF r.status = "OK" \/ r.log # << >> THEN r.pos ELSE consumed_in,
   cs |-> r.cs,
   log |-> r.log]

\* ProcessCalls reporting no byte as consumed after handling frames.
ProcessCallsReturn_ReportsNothing(r, consumed_in) ==
  [status |-> r.status,
   consumed |-> IF r.status = "OK" THEN 0 ELSE consumed_in,
   cs |-> r.cs,
   log |-> r.log]

\* Lines 84-85 and the error returns: the value of *consumed on return is
\* written only on the OK path.
ProcessCallsReturn(r, consumed_in) ==
  [status |-> r.status,
   consumed |-> IF r.status = "OK" THEN r.pos ELSE consumed_in,
   cs |-> r.cs,
   log |-> r.log]

\* ProcessCalls(connection, slice, &consumed) with *consumed = consumed_in on
\* entry: the status, the value of *consumed on return and the effects.
ProcessCalls(dir, slice, consumed_in, cs) ==
  ProcessCallsReturn(ProcessLoop(dir, slice, 0, cs, << >>), consumed_in)

\* YBConnectionContext::MaxReceive(existing_data).
kBigPacket == 131072

Max(a, b) == IF a >= b THEN a ELSE b

\* MaxReceive taking the larger of the threshold and the declared body length.
MaxReceive_BodyLengthOnly(existing_data) ==
  IF Len(existing_data) >= kMsgLengthPrefixLength
  THEN Max(kBigPacket, Load32(existing_data, 0))
  ELSE kBigPacket

MaxReceive(existing_data) ==
  IF Len(existing_data) >= kMsgLengthPrefixLength
  THEN Max(kBigPacket, Load32(existing_data, 0) + kMsgLengthPrefixLength)
  ELSE kBigPacket

(***************************************************************************)
(* The peer's streams.                                                     *)
(***************************************************************************)
RequestHeader(id, method) ==
  [call_id |-> id, has_call_id |-> TRUE,
   has_remote_method |-> TRUE, remote_method |-> method,
   has_timeout_millis |-> FALSE, timeout_millis |-> 0]

\* A complete request with call id `id` whose frame is n bytes long in all.
RequestOfSize(id, n) ==
  Frame(EncodeBody(RequestHeader(id, 1),
                   Pad(n - Len(Frame(EncodeBody(RequestHeader(id, 1), << >>))))))

Catalogue ==
  { Frame(EncodeBody(RequestHeader(1, 1), << >>)),           \* a request, below the limit
    RequestOfSize(2, FLAGS_rpc_max_message_size),            \* a request, exactly the limit
    RequestOfSize(2, FLAGS_rpc_max_message_size + 1),        \* one byte over, body present
    Store32(9000000),                                        \* oversize prefix, no body
    Frame(EncodeBody([NoHeader EXCEPT !.call_id = 1, !.has_call_id = TRUE], << >>)),
    Frame(EncodeBody(RequestHeader(1, 0), << >>)),           \* remote_method not initialized
    Frame(<< >>) }                                           \* no envelope at all

\* Every stream in `shorter`, alone and followed by one more catalogue segment.
Extend(shorter) == shorter \cup { s \o f : s \in shorter, f \in Catalogue }

RECURSIVE StreamsOf(_)
StreamsOf(n) == IF n = 0 THEN { << >> } ELSE Extend(StreamsOf(n - 1))

Streams == StreamsOf(MaxFrames)

(***************************************************************************)
(* Actions of the connection.                                              *)
(***************************************************************************)
NoInvocation ==
  [ran |-> FALSE, slice |-> << >>, consumed_in |-> 0, status |-> "OK",
   consumed |-> 0, log |-> << >>, calls_before |-> 0, calls_after |-> 0,
   queue_before |-> << >>, queue_after |-> << >>,
   outbound_before |-> << >>, outbound_after |-> << >>]

\* MonoTime values: MonoTime::Max(), or a number of nanoseconds.
MonoTimeMax == [max |-> TRUE, nanos |-> 0]

MonoTimeOf(nanos) == [max |-> FALSE, nanos |-> nanos]

\* MonoDelta::FromMilliseconds(ms), in nanoseconds.
FromMilliseconds(ms) == ms * 1000000

NoDeadline == [ran |-> FALSE, call |-> 0, value |-> MonoTimeMax, time_before |-> 0]

\* The reactor thread is not inside ProcessCalls.
Idle ==
  [running |-> FALSE, slice |-> << >>, pos |-> 0, log |-> << >>, consumed_in |-> 0,
   before |-> [calls |-> 0, queue |-> << >>, outbound |-> << >>]]

NoHint == [ran |-> FALSE, existing_data |-> << >>, value |-> 0]

NoRespond ==
  [ran |-> FALSE, call |-> 0, is_success |-> FALSE, status |-> "OK",
   outbound_before |-> << >>, outbound_after |-> << >>]

Init ==
  /\ direction \in {"SERVER", "CLIENT"}
  /\ wire \in Streams
  /\ delivered = << >>
  /\ read_buffer = << >>
  /\ consumed = 0
  /\ closed = FALSE
  /\ last = NoInvocation
  /\ handed = << >>
  /\ calls = << >>
  /\ calls_being_handled = {}
  /\ inbound_queue = << >>
  /\ outbound = << >>
  /\ client_responses = 0
  /\ sent = << >>
  /\ last_respond = NoRespond
  /\ deadline = NoDeadline
  /\ hint = NoHint
  /\ reactor = Idle
  /\ crashed = FALSE

\* The reactor reads n more bytes from the socket into the read buffer.
Receive ==
  /\ ~closed /\ ~crashed /\ ~reactor.running
  /\ \E n \in 1..Len(wire) :
       /\ read_buffer' = read_buffer \o SubSeq(wire, 1, n)
       /\ delivered' = delivered \o SubSeq(wire, 1, n)
       /\ wire' = DropFirst(wire, n)
  /\ UNCHANGED << direction, consumed, closed, last, handed, calls, calls_being_handled,
                  inbound_queue, outbound, client_responses, sent, last_respond,
                  deadline, hint, reactor, crashed >>

\* The bodies of the frames listed in log, cut from slice.
RECURSIVE BodiesOf(_, _)
BodiesOf(slice, log) ==
  IF log = << >> THEN << >>
  ELSE << SliceOf(slice, Head(log).start, Head(log).len) >> \o BodiesOf(slice, Tail(log))

\* What the connection held when ProcessCalls was entered.
Before == [calls |-> Len(calls), queue |-> inbound_queue, outbound |-> outbound]

\* The read handler once ProcessCalls, entered in the state `before`, returned
\* r: drop the consumed prefix, or close the connection on an error.
ReadHandlerApplyFrom(before, consumed_in, r) ==
  /\ consumed' = r.consumed
  /\ last' = [ran |-> TRUE, slice |-> read_buffer, consumed_in |-> consumed_in,
              status |-> r.status, consumed |-> r.consumed, log |-> r.log,
              calls_before |-> before.calls, calls_after |-> Len(r.cs.calls),
              queue_before |-> before.queue, queue_after |-> r.cs.inbound_queue,
              outbound_before |-> before.outbound, outbound_after |-> r.cs.outbound]
  /\ handed' = handed \o BodiesOf(read_buffer, r.log)
  /\ calls' = r.cs.calls
  /\ calls_being_handled' = r.cs.calls_being_handled
  /\ inbound_queue' = r.cs.inbound_queue
  /\ outbound' = r.cs.outbound
  /\ client_responses' = r.cs.client_responses
  /\ IF r.status = "OK"
     THEN read_buffer' = DropFirst(read_buffer, r.consumed) /\ closed' = FALSE
     ELSE read_buffer' = read_buffer /\ closed' = TRUE

ReadHandlerApply(consumed_in, r) == ReadHandlerApplyFrom(Before, consumed_in, r)

\* The connection's read handler: ProcessCalls on the whole read buffer.
ReadHandler ==
  /\ ~closed /\ ~crashed /\ ~reactor.running
  /\ read_buffer # << >>
  /\ \E consumed_in \in 0..MaxConsumedIn :
       ReadHandlerApply(consumed_in,
                        ProcessCalls(direction, read_buffer, consumed_in,
                                     [calls |-> calls,
                                      calls_being_handled |-> calls_being_handled,
                                      inbound_queue |-> inbound_queue,
                                      outbound |-> outbound,
                                      client_responses |-> client_responses]))
  /\ UNCHANGED << direction, wire, delivered, sent, last_respond, deadline, hint,
                  reactor, crashed >>

(***************************************************************************)
(* YBInboundCall: responding.  A response message is a record              *)
(* [kind, code, ext, size, initialized]: size is ByteSize(), initialized   *)
(* is IsInitialized().  A sidecar is a byte sequence.                      *)
(***************************************************************************)

\* CodedOutputStream::VarintSize32.
VarintSize32(n) == IF n < 128 THEN 1 ELSE IF n < 16384 THEN 2 ELSE 3

\* ResponseHeader::ByteSize(): call_id, is_error, one entry per sidecar offset.
HeaderByteSize(resp_hdr) == 2 + 2 + 2 * Len(resp_hdr.sidecar_offsets)

\* serialization::SerializeMessage(message, param_buf, additional_size,
\* use_cached_size, offset, &size): fails on a message with required fields
\* missing; size is the payload's byte size counted from offset, and
\* additional_size bytes are left to the sidecars that follow the payload.
SerializeMessage(message, additional_size, offset) ==
  IF ~message.initialized
  THEN [status |-> "InvalidArgument", size |-> 0]
  ELSE [status |-> "OK", size |-> offset + message.size]

\* serialization::SerializeHeader(header, param_len, &header_buf,
\* reserve_for_param, &header_size): header_buf is allocated with room for the
\* payload, and the length prefix counts everything after itself.
SerializeHeader(resp_hdr, param_len, reserve_for_param) ==
  [status |-> "OK",
   header_size |-> kMsgLengthPrefixLength + VarintSize32(HeaderByteSize(resp_hdr))
                     + HeaderByteSize(resp_hdr),
   buf_size |-> kMsgLengthPrefixLength + VarintSize32(HeaderByteSize(resp_hdr))
                  + HeaderByteSize(resp_hdr) + reserve_for_param,
   param_len |-> param_len,
   length_prefix |-> VarintSize32(HeaderByteSize(resp_hdr)) + HeaderByteSize(resp_hdr)
                       + param_len]

\* The loop over sidecars_ recording each sidecar's offset without advancing
\* absolute_sidecar_offset by the sidecar's size.
RECURSIVE SidecarLoop_NoAdvance(_, _, _)
SidecarLoop_NoAdvance(cars, offsets, absolute) ==
  IF cars = << >> THEN [offsets |-> offsets, absolute |-> absolute]
  ELSE SidecarLoop_NoAdvance(Tail(cars), Append(offsets, absolute), absolute)

\* Lines 196-200: the loop over sidecars_, entered with absolute_sidecar_offset
\* = absolute and the offsets added so far.
RECURSIVE SidecarLoop(_, _, _)
SidecarLoop(cars, offsets, absolute) ==
  IF cars = << >> THEN [offsets |-> offsets, absolute |-> absolute]
  ELSE SidecarLoop(Tail(cars), Append(offsets, absolute), absolute + Len(Head(cars)))

\* Lines 214-227: the header and then the payload are written into response_buf_.
SerializeInto(call, response, resp_hdr, additional_size, message_size, h) ==
  IF h.status # "OK" THEN [status |-> h.status, call |-> call]
  ELSE [status |-> SerializeMessage(response, additional_size, h.header_size).status,
        call |-> [call EXCEPT !.response_buf =
                    [size |-> h.buf_size, header_size |-> h.header_size,
                     message_size |-> message_size, param_len |-> h.param_len,
                     length_prefix |-> h.length_prefix,
                     call_id |-> resp_hdr.call_id, is_error |-> resp_hdr.is_error,
                     sidecar_offsets |-> resp_hdr.sidecar_offsets,
                     payload |-> response]]]

\* SerializeSized giving SerializeHeader the payload's size alone as the size
\* that follows the header.
SerializeSized_PayloadOnly(call, response, resp_hdr, additional_size, m) ==
  IF m.status # "OK" THEN [status |-> m.status, call |-> call]
  ELSE SerializeInto(call, response, resp_hdr, additional_size, m.size,
                     SerializeHeader(resp_hdr, m.size, m.size))

\* Lines 204-213: m is what the sizing call of SerializeMessage returned.
SerializeSized(call, response, resp_hdr, additional_size, m) ==
  IF m.status # "OK" THEN [status |-> m.status, call |-> call]
  ELSE SerializeInto(call, response, resp_hdr, additional_size, m.size,
                     SerializeHeader(resp_hdr, m.size + additional_size, m.size))

\* Lines 193-202: loop is what the loop over the sidecars produced.
SerializeWithOffsets(call, response, is_success, protobuf_msg_size, loop) ==
  SerializeSized(call, response,
                 [call_id |-> call.header.call_id, is_error |-> ~is_success,
                  sidecar_offsets |-> loop.offsets],
                 loop.absolute - protobuf_msg_size,
                 SerializeMessage(response, loop.absolute - protobuf_msg_size, 0))

\* YBInboundCall::SerializeResponseBuffer(response, is_success): [status, call].
SerializeResponseBuffer(call, response, is_success) ==
  SerializeWithOffsets(call, response, is_success, response.size,
                       SidecarLoop(call.sidecars, << >>, response.size))

\* InboundCall::QueueResponse: the call goes onto its connection's outbound queue.
QueueResponse(i) == outbound' = Append(outbound, i)

\* Lines 350-352 of Respond: s is what SerializeResponseBuffer returned.
RespondQueue(i, is_success, s) ==
  /\ calls' = [calls EXCEPT ![i] =
                 [s.call EXCEPT !.responds = @ + 1,
                                !.serialized = IF s.status = "OK" THEN @ + 1 ELSE @]]
  /\ last_respond' = [ran |-> TRUE, call |-> i, is_success |-> is_success,
                      status |-> s.status, outbound_before |-> outbound,
                      outbound_after |-> Append(outbound, i)]
  /\ QueueResponse(i)
  /\ UNCHANGED crashed

\* LOG(DFATAL): a debug build aborts the process here, a release build logs.
DFatalAborts ==
  /\ crashed' = TRUE
  /\ UNCHANGED << calls, last_respond, outbound >>

\* Lines 344-348 of Respond.
RespondSerialized(i, is_success, s) ==
  IF s.status # "OK"
  THEN DFatalAborts \/ RespondQueue(i, is_success, s)
  ELSE RespondQueue(i, is_success, s)

\* YBInboundCall::Respond(response, is_success) on call number i.
Respond(i, response, is_success) ==
  RespondSerialized(i, is_success,
                    SerializeResponseBuffer(calls[i], response, is_success))

\* The ErrorStatusPB that RespondFailure builds.
ErrorStatus(error_code) ==
  [kind |-> "error", code |-> error_code, ext |-> FALSE, size |-> 4, initialized |-> TRUE]

\* ApplicationErrorToPB setting the message only once the extension was found.
ApplicationErrorToPB_MessageWithExtension(ext_known, app_error_pb) ==
  IF ext_known
  THEN [kind |-> "error", code |-> "none", ext |-> TRUE,
        size |-> 2 + 2 + app_error_pb.size, initialized |-> app_error_pb.initialized]
  ELSE [kind |-> "error", code |-> "none", ext |-> FALSE, size |-> 0,
        initialized |-> FALSE]

\* YBInboundCall::ApplicationErrorToPB: the message is set; the payload is merged
\* into the extension slot when the extension id is known.
ApplicationErrorToPB(ext_known, app_error_pb) ==
  IF ext_known
  THEN [kind |-> "error", code |-> "none", ext |-> TRUE,
        size |-> 2 + 2 + app_error_pb.size, initialized |-> app_error_pb.initialized]
  ELSE [kind |-> "error", code |-> "none", ext |-> FALSE, size |-> 2,
        initialized |-> TRUE]

\* The results a handler may pass to RespondSuccess.
Results ==
  { [kind |-> "result", code |-> "none", ext |-> FALSE, size |-> n, initialized |-> b] :
      n \in {0, 10}, b \in BOOLEAN }

\* The structured payloads a handler may pass to RespondApplicationError.
AppErrors ==
  { [size |-> 1, initialized |-> b] : b \in BOOLEAN }

\* The sidecars a handler may attach: n bytes, each of value n.
Sidecars == { [k \in 1..n |-> n] : n \in 0..MaxSidecarSize }

\* Calls a handler holds and may still act on.
Respondable ==
  { i \in 1..Len(calls) : calls[i].responds < MaxResponds }

\* Calls no responder has been invoked on yet.
Unanswered ==
  { i \in 1..Len(calls) : calls[i].responds = 0 }

\* Results with every required field set.
GoodResults == { r \in Results : r.initialized /\ r.size > 0 }

CallFrame == << direction, wire, delivered, read_buffer, consumed, closed, last, handed,
                calls_being_handled, inbound_queue, client_responses, sent,
                deadline, hint, reactor >>

\* InboundCall::AddRpcSidecar(car), before the response is finalized.
AddRpcSidecar ==
  /\ ~crashed
  /\ \E i \in Respondable, car \in Sidecars :
       /\ calls[i].responds = 0
       /\ Len(calls[i].sidecars) < MaxSidecars
       /\ calls' = [calls EXCEPT ![i].sidecars = Append(@, car)]
  /\ UNCHANGED << CallFrame, outbound, last_respond, crashed >>

\* YBInboundCall::RespondSuccess(response), on a call of `held` with a
\* response of `results`.
RespondSuccessIn(held, results) ==
  /\ ~crashed
  /\ \E i \in held, response \in results : Respond(i, response, TRUE)
  /\ UNCHANGED CallFrame

RespondSuccess == RespondSuccessIn(Respondable, Results)

\* RespondFailure finishing with Respond(err, true).
RespondFailureOn_AsSuccess(i, error_code) == Respond(i, ErrorStatus(error_code), TRUE)

\* YBInboundCall::RespondFailure(error_code, status) on call number i.
RespondFailureOn(i, error_code) == Respond(i, ErrorStatus(error_code), FALSE)

RespondFailure ==
  /\ ~crashed
  /\ \E i \in Respondable,
        error_code \in {"ERROR_APPLICATION", "ERROR_SERVER_TOO_BUSY"} :
       RespondFailureOn(i, error_code)
  /\ UNCHANGED CallFrame

\* YBInboundCall::RespondBadMethod().
RespondBadMethod ==
  /\ ~crashed
  /\ \E i \in Respondable : RespondFailureOn(i, "ERROR_NO_SUCH_METHOD")
  /\ UNCHANGED CallFrame

\* YBInboundCall::RespondApplicationError(error_ext_id, message, app_error_pb),
\* ext_known telling whether error_ext_id is a known extension of ErrorStatusPB.
RespondApplicationErrorWith(ext_known) ==
  /\ ~crashed
  /\ \E i \in Respondable, app_error_pb \in AppErrors :
       \/ /\ ~ext_known
          /\ DFatalAborts
       \/ Respond(i, ApplicationErrorToPB(ext_known, app_error_pb), FALSE)
  /\ UNCHANGED CallFrame

RespondApplicationError == \E ext_known \in BOOLEAN : RespondApplicationErrorWith(ext_known)

\* YBInboundCall::ParseParam(message): the handler's schema either decodes the
\* serialized request (nothing changes, the result is true) or does not.
ParseParamIn(held) ==
  /\ ~crashed
  /\ \E i \in held : RespondFailureOn(i, "ERROR_INVALID_REQUEST")
  /\ UNCHANGED CallFrame

ParseParam == ParseParamIn(Respondable)

\* GetClientDeadline treating a timeout of 0 like any other timeout.
GetClientDeadline_NoZeroCheck(call) ==
  IF ~call.header.has_timeout_millis
  THEN MonoTimeMax
  ELSE MonoTimeOf(call.time_received + FromMilliseconds(call.header.timeout_millis))

\* YBInboundCall::GetClientDeadline() const.
GetClientDeadline(call) ==
  IF ~call.header.has_timeout_millis \/ call.header.timeout_millis = 0
  THEN MonoTimeMax
  ELSE MonoTimeOf(call.time_received + FromMilliseconds(call.header.timeout_millis))

\* The dispatch boundary asks a call for its deadline.
AskClientDeadline ==
  /\ ~crashed
  /\ \E i \in 1..Len(calls) :
       deadline' = [ran |-> TRUE, call |-> i, value |-> GetClientDeadline(calls[i]),
                    time_before |-> calls[i].time_received]
  /\ UNCHANGED << direction, wire, delivered, read_buffer, consumed, closed, last,
                  handed, calls, calls_being_handled, inbound_queue, outbound,
                  client_responses, sent, last_respond, hint, reactor, crashed >>

\* YBInboundCall::Serialize(output): the buffers of a queued call.
Serialize(call) == << call.response_buf >> \o call.sidecars

\* The connection writes out the call at the head of its outbound queue and
\* the call's id leaves the connection's tracking.
Transfer ==
  /\ ~crashed /\ ~reactor.running
  /\ outbound # << >>
  /\ IF calls[Head(outbound)].response_buf.size > 0
     THEN /\ sent' = Serialize(calls[Head(outbound)])
          /\ outbound' = Tail(outbound)
          /\ calls_being_handled' =
               calls_being_handled \ {ExtractCallId(calls[Head(outbound)])}
          /\ UNCHANGED crashed
     ELSE /\ crashed' = TRUE
          /\ UNCHANGED << sent, outbound, calls_being_handled >>
  /\ UNCHANGED << direction, wire, delivered, read_buffer, consumed, closed, last,
                  handed, calls, inbound_queue, client_responses, last_respond,
                  deadline, hint, reactor >>

(***************************************************************************)
(* A single call: the state after the read handler processed one request   *)
(* frame, from which handlers attach sidecars and respond.                 *)
(***************************************************************************)

\* The request body the peer encodes for call id `id` with timeout field t:
\* << present, milliseconds >>.
BodyWithTimeout(id, t) ==
  EncodeBody([RequestHeader(id, 1) EXCEPT !.has_timeout_millis = t[1],
                                          !.timeout_millis = t[2]], << >>)

\* The timeout fields of a request header: absent, or 0..MaxTimeoutMillis.
Timeouts == { << FALSE, 0 >> } \cup { << TRUE, T >> : T \in 0..MaxTimeoutMillis }

\* Request bodies of the calls handlers respond to.
CallBodies == { BodyWithTimeout(id, << FALSE, 0 >>) : id \in {1, 2} }

\* Request bodies with and without a timeout.
DeadlineBodies == { BodyWithTimeout(id, t) : id \in {1, 2}, t \in Timeouts }

EmptyCs ==
  [calls |-> << >>, calls_being_handled |-> {}, inbound_queue |-> << >>,
   outbound |-> << >>, client_responses |-> 0]

\* The calls with the arrival timestamp `now` recorded on each.
Received(cs_calls, now) ==
  [i \in 1..Len(cs_calls) |-> [cs_calls[i] EXCEPT !.time_received = now]]

\* The state after ProcessCalls returned r for the read buffer `frame`, the
\* calls having arrived at time `now`.
InitCallWith(frame, r, now) ==
  /\ direction = "SERVER"
  /\ wire = << >>
  /\ delivered = frame
  /\ read_buffer = DropFirst(frame, r.consumed)
  /\ consumed = r.consumed
  /\ closed = FALSE
  /\ last = [ran |-> TRUE, slice |-> frame, consumed_in |-> 0, status |-> r.status,
             consumed |-> r.consumed, log |-> r.log,
             calls_before |-> 0, calls_after |-> Len(r.cs.calls),
             queue_before |-> << >>, queue_after |-> r.cs.inbound_queue,
             outbound_before |-> << >>, outbound_after |-> r.cs.outbound]
  /\ handed = BodiesOf(frame, r.log)
  /\ calls = Received(r.cs.calls, now)
  /\ calls_being_handled = r.cs.calls_being_handled
  /\ inbound_queue = r.cs.inbound_queue
  /\ outbound = r.cs.outbound
  /\ client_responses = r.cs.client_responses
  /\ sent = << >>
  /\ last_respond = NoRespond
  /\ deadline = NoDeadline
  /\ hint = NoHint
  /\ reactor = Idle
  /\ crashed = FALSE

InitCall ==
  \E body \in CallBodies :
    InitCallWith(Frame(body), ProcessCalls("SERVER", Frame(body), 0, EmptyCs), 0)

NextCall ==
  \/ AddRpcSidecar
  \/ RespondSuccess
  \/ RespondFailure
  \/ RespondBadMethod
  \/ RespondApplicationError
  \/ ParseParam
  \/ Transfer

SpecCall == InitCall /\ [][NextCall]_vars

(***************************************************************************)
(* A single call and its deadline: a request with any timeout field,       *)
(* arrived at any time, is asked for its client deadline.                  *)
(***************************************************************************)
InitDeadline ==
  \E body \in DeadlineBodies, now \in 0..MaxTimeReceived :
    InitCallWith(Frame(body), ProcessCalls("SERVER", Frame(body), 0, EmptyCs), now)

NextDeadline == AskClientDeadline

SpecDeadline == InitDeadline /\ [][NextDeadline]_vars

(***************************************************************************)
(* The read hint: the reactor asks MaxReceive how much to read for, reads  *)
(* what the socket has, and runs ProcessCalls on it.                       *)
(***************************************************************************)

\* Body lengths a frame's prefix declares: small ones, the ones around the
\* big-packet threshold, and a large one.
HintLengths == { 0, 5, kBigPacket - 5, kBigPacket - 4, kBigPacket - 3, 9000000 }

\* A prefix followed by at most MaxHintBody bytes of the body, alone or behind
\* a complete request.
HintStreams ==
  { lead \o Store32(n) \o Pad(k) :
      lead \in { << >>, Frame(EncodeBody(RequestHeader(1, 1), << >>)) },
      n \in HintLengths, k \in 0..MaxHintBody }

InitReceive ==
  /\ direction \in {"SERVER", "CLIENT"}
  /\ wire \in HintStreams
  /\ delivered = << >>
  /\ read_buffer = << >>
  /\ consumed = 0
  /\ closed = FALSE
  /\ last = NoInvocation
  /\ handed = << >>
  /\ calls = << >>
  /\ calls_being_handled = {}
  /\ inbound_queue = << >>
  /\ outbound = << >>
  /\ client_responses = 0
  /\ sent = << >>
  /\ last_respond = NoRespond
  /\ deadline = NoDeadline
  /\ hint = NoHint
  /\ reactor = Idle
  /\ crashed = FALSE

\* The reactor asks for the read hint of the bytes it has buffered.
AskMaxReceive ==
  /\ ~closed /\ ~crashed /\ ~reactor.running
  /\ hint' = [ran |-> TRUE, existing_data |-> read_buffer,
              value |-> MaxReceive(read_buffer)]
  /\ UNCHANGED << direction, wire, delivered, read_buffer, consumed, closed, last,
                  handed, calls, calls_being_handled, inbound_queue, outbound,
                  client_responses, sent, last_respond, deadline, reactor, crashed >>

NextReceive ==
  \/ AskMaxReceive
  \/ Receive
  \/ ReadHandler

SpecReceive == InitReceive /\ [][NextReceive]_vars

(***************************************************************************)
(* The connection with a dispatch boundary that keeps its contract: each   *)
(* dispatched call gets one responder invocation, either the failure path  *)
(* of ParseParam or RespondSuccess with a complete result.                 *)
(***************************************************************************)
HandlerParseParam == ParseParamIn(Unanswered)

HandlerSuccess == RespondSuccessIn(Unanswered, GoodResults)

Next ==
  \/ Receive
  \/ ReadHandler
  \/ HandlerParseParam
  \/ HandlerSuccess
  \/ Transfer

Spec == Init /\ [][Next]_vars

(***************************************************************************)
(* Threads: the reactor thread runs ProcessCalls one loop iteration at a   *)
(* time while worker threads complete the handlers of dispatched calls.    *)
(***************************************************************************)

\* The connection's state as a frame handler finds it.
CsNow ==
  [calls |-> calls, calls_being_handled |-> calls_being_handled,
   inbound_queue |-> inbound_queue, outbound |-> outbound,
   client_responses |-> client_responses]

\* Where the frame at offset pos of slice ends when it is complete, and the
\* end of slice otherwise.
FrameEnd(slice, pos) ==
  IF Len(slice) - pos >= kMsgLengthPrefixLength
     /\ Load32(slice, pos) + kMsgLengthPrefixLength <= Len(slice) - pos
  THEN pos + Load32(slice, pos) + kMsgLengthPrefixLength
  ELSE Len(slice)

\* One iteration of the loop of ProcessCalls at offset pos: the loop run on
\* the bytes up to the end of the frame at pos.
OneIteration(dir, slice, pos, cs, log) ==
  LET upto == CHOOSE part \in { SubSeq(slice, 1, FrameEnd(slice, pos)) } : TRUE
  IN  ProcessLoop(dir, upto, pos, cs, log)

\* The reactor thread enters ProcessCalls on the read buffer, its consumed
\* variable holding what the previous invocation left there.
EnterProcessCalls ==
  /\ ~closed /\ ~crashed /\ ~reactor.running
  /\ read_buffer # << >>
  /\ reactor' = [running |-> TRUE, slice |-> read_buffer, pos |-> 0, log |-> << >>,
                 consumed_in |-> consumed, before |-> Before]
  /\ UNCHANGED << direction, wire, delivered, read_buffer, consumed, closed, last,
                  handed, calls, calls_being_handled, inbound_queue, outbound,
                  client_responses, sent, last_respond, deadline, hint, crashed >>

\* Lines 77-82: the iteration handled a frame and the loop goes on.
Continue(r) ==
  /\ reactor' = [reactor EXCEPT !.pos = r.pos, !.log = r.log]
  /\ calls' = r.cs.calls
  /\ calls_being_handled' = r.cs.calls_being_handled
  /\ inbound_queue' = r.cs.inbound_queue
  /\ outbound' = r.cs.outbound
  /\ client_responses' = r.cs.client_responses
  /\ UNCHANGED << read_buffer, consumed, closed, last, handed >>

\* Lines 66, 74, 79, 84-85: the loop is left and ProcessCalls returns to the
\* read handler.
Return(r) ==
  /\ ReadHandlerApplyFrom(reactor.before, reactor.consumed_in,
                          ProcessCallsReturn(r, reactor.consumed_in))
  /\ reactor' = Idle

\* StepApply returning from ProcessCalls only once every dispatched call has
\* been responded to.
StepApply_WaitsForHandlers(r) ==
  IF r.status = "OK" /\ r.pos > reactor.pos
  THEN Continue(r)
  ELSE Unanswered = {} /\ Return(r)

\* The reactor's step once the iteration produced r.
StepApply(r) ==
  IF r.status = "OK" /\ r.pos > reactor.pos
  THEN Continue(r)
  ELSE Return(r)

\* The reactor thread runs one iteration of the loop of ProcessCalls.
ProcessCallsStep ==
  /\ reactor.running /\ ~crashed
  /\ \E r \in { OneIteration(direction, reactor.slice, reactor.pos, CsNow, reactor.log) } :
       StepApply(r)
  /\ UNCHANGED << direction, wire, delivered, sent, last_respond, deadline, hint,
                  crashed >>

\* What the peer writes: requests with call ids 1 and 2, the prefix and first
\* byte of a longer frame, and an oversize prefix.
ThreadCatalogue ==
  { Frame(EncodeBody(RequestHeader(1, 1), << >>)),
    RequestOfSize(2, FLAGS_rpc_max_message_size),
    Store32(5) \o << 7 >>,
    Store32(9000000) }

RECURSIVE ThreadStreamsOf(_)
ThreadStreamsOf(n) ==
  IF n = 0 THEN { << >> }
  ELSE ThreadStreamsOf(n - 1)
         \cup { t \o f : t \in ThreadStreamsOf(n - 1), f \in ThreadCatalogue }

\* The bytes of the stream have arrived and wait in the read buffer.
InitThreads ==
  /\ direction = "SERVER"
  /\ wire = << >>
  /\ read_buffer \in ThreadStreamsOf(MaxThreadFrames)
  /\ delivered = read_buffer
  /\ consumed = 0
  /\ closed = FALSE
  /\ last = NoInvocation
  /\ handed = << >>
  /\ calls = << >>
  /\ calls_being_handled = {}
  /\ inbound_queue = << >>
  /\ outbound = << >>
  /\ client_responses = 0
  /\ sent = << >>
  /\ last_respond = NoRespond
  /\ deadline = NoDeadline
  /\ hint = NoHint
  /\ reactor = Idle
  /\ crashed = FALSE

NextThreads ==
  \/ EnterProcessCalls
  \/ ProcessCallsStep
  \/ HandlerParseParam
  \/ HandlerSuccess
  \/ Transfer

\* The reactor thread keeps running; nothing is assumed of the workers.
SpecThreads == InitThreads /\ [][NextThreads]_vars /\ WF_vars(ProcessCallsStep)


(***************************************************************************)
(* Properties.                                                             *)
(***************************************************************************)

\* The bodies of the complete frames at the front of a byte stream, taken in
\* one pass: the frame boundaries depend on the bytes alone.
RECURSIVE CompleteFrames(_)
CompleteFrames(bytes) ==
  IF Len(bytes) < kMsgLengthPrefixLength THEN << >>
  ELSE LET n == Load32(bytes, 0) IN
       IF Len(bytes) < kMsgLengthPrefixLength + n THEN << >>
       ELSE << SliceOf(bytes, kMsgLengthPrefixLength, n) >>
              \o CompleteFrames(DropFirst(bytes, kMsgLengthPrefixLength + n))

\* Total size (prefix and body) of the frames of a ProcessCalls log.
RECURSIVE LogBytes(_)
LogBytes(log) ==
  IF log = << >> THEN 0
  ELSE kMsgLengthPrefixLength + Head(log).len + LogBytes(Tail(log))

\* Every frame of the log was handled without error.
AllHandled(log) == \A k \in 1..Len(log) : log[k].status = "OK"

\* No byte arrived since the latest ProcessCalls invocation returned OK.
UpToDate ==
  /\ last.ran /\ last.status = "OK" /\ ~closed
  /\ read_buffer = DropFirst(last.slice, last.consumed)

\* C1: however the delivery of a stream is split into ProcessCalls invocations,
\* once an invocation has seen every delivered byte the bodies handed to
\* HandleCall so far are the complete frames of the delivered bytes, and each
\* successful invocation reports as consumed the total size (prefix + body) of
\* the frames it handled, so never a byte of a partial trailing frame.
C1_SplitIndependentFrames ==
  /\ UpToDate => handed = CompleteFrames(delivered)
  /\ (last.ran /\ last.status = "OK") =>
       /\ last.consumed = LogBytes(last.log)
       /\ CompleteFrames(DropFirst(last.slice, last.consumed)) = << >>

\* C1 witness: an invocation handled one complete frame and left unconsumed a
\* partial second frame of which the prefix and some of the body had arrived.
C1_Witness ==
  /\ UpToDate
  /\ Len(handed) = 1
  /\ Len(last.log) = 1
  /\ last.consumed < Len(last.slice)
  /\ Len(read_buffer) > kMsgLengthPrefixLength

\* The offset at which the latest invocation stopped handling frames.
StopOffset == LogBytes(last.log)

\* The latest invocation found, after the frames it handled, a prefix that
\* declares more than the maximum message size.
OversizeAtStop ==
  /\ Len(last.slice) - StopOffset >= kMsgLengthPrefixLength
  /\ Load32(last.slice, StopOffset) + kMsgLengthPrefixLength > FLAGS_rpc_max_message_size

\* C2: an invocation whose handled frames all succeeded returns the size-limit
\* NetworkError exactly when the next frame position has at least 4 bytes and
\* declares body + prefix above the maximum message size, whether or not the
\* body has arrived; that frame is not handed to HandleCall, and a frame of
\* exactly the maximum size is not rejected.
C2_OversizeRejected ==
  (last.ran /\ AllHandled(last.log)) =>
     /\ (last.status = "NetworkError") <=> OversizeAtStop
     /\ OversizeAtStop => \A k \in 1..Len(last.log) : last.log[k].start < StopOffset

\* C2 witness: a frame one byte above the limit is rejected with its whole body
\* in the buffer, after a frame of exactly the limit was handled.
C2_Witness ==
  /\ last.ran /\ last.status = "NetworkError" /\ AllHandled(last.log)
  /\ Len(last.log) = 1
  /\ kMsgLengthPrefixLength + last.log[1].len = FLAGS_rpc_max_message_size
  /\ StopOffset + kMsgLengthPrefixLength + Load32(last.slice, StopOffset) = Len(last.slice)

\* The first frame of the latest invocation's buffer declares an oversize length.
FirstFrameOversize ==
  /\ last.ran
  /\ Len(last.slice) >= kMsgLengthPrefixLength
  /\ Load32(last.slice, 0) + kMsgLengthPrefixLength > FLAGS_rpc_max_message_size

\* C3 as stated: with an oversize first frame ProcessCalls returns the oversize
\* error and the consumed count the caller sees is zero.
C3_ReportsZero ==
  FirstFrameOversize => (last.status = "NetworkError" /\ last.consumed = 0)

\* C3 amended: with an oversize first frame ProcessCalls returns the oversize
\* error, hands no frame to HandleCall and does not write the consumed output,
\* which keeps the value the caller supplied.
C3_LeavesConsumedUnwritten ==
  FirstFrameOversize =>
    /\ last.status = "NetworkError"
    /\ last.log = << >>
    /\ last.consumed = last.consumed_in
    /\ consumed = last.consumed_in

\* C3 witness: the prefix 9,000,000 is rejected and the caller's nonzero
\* consumed value is still there.
C3_Witness ==
  /\ FirstFrameOversize
  /\ Load32(last.slice, 0) = 9000000
  /\ last.consumed_in = 1
  /\ consumed = 1
  /\ closed


(***************************************************************************)
(* Properties of frame handling on the server leg.                         *)
(***************************************************************************)

\* The body of frame k of the latest invocation.
BodyOf(k) == SliceOf(last.slice, last.log[k].start, last.log[k].len)

\* The frame body does not parse as a request: the envelope cannot be decoded,
\* or it carries no remote_method, or one with required names missing.
ParseFails(body) ==
  \/ ParseYBMessage(body).status # "OK"
  \/ ~ParseYBMessage(body).header.has_remote_method
  \/ ParseYBMessage(body).header.remote_method = 0

\* Frames of the latest invocation's log that were registered / dispatched.
StoredFrames == { k \in 1..Len(last.log) : last.log[k].stored }
DispatchedFrames == { k \in 1..Len(last.log) : last.log[k].dispatched }

\* C7: on the server leg a complete frame that fails to parse makes ParseFrom
\* and ProcessCalls return Corruption; the invocation registers and dispatches
\* only the frames before it, never that call, and queues no response.
C7_ParseFailureIsFatal ==
  (last.ran /\ direction = "SERVER") =>
    /\ \A k \in 1..Len(last.log) :
         ParseFails(BodyOf(k)) =>
           /\ last.log[k].status = "Corruption"
           /\ last.status = "Corruption"
           /\ ~last.log[k].stored /\ ~last.log[k].dispatched
           /\ k = Len(last.log)
    /\ last.calls_after = last.calls_before + Cardinality(StoredFrames)
    /\ Len(last.queue_after) = Len(last.queue_before) + Cardinality(DispatchedFrames)
    /\ \A k \in StoredFrames \cup DispatchedFrames : ~ParseFails(BodyOf(k))
    /\ last.outbound_after = last.outbound_before

\* C7 witness: a request was dispatched, then a frame whose header has no
\* remote_method closed the connection with Corruption.
C7_Witness ==
  /\ last.ran /\ direction = "SERVER" /\ closed
  /\ last.status = "Corruption"
  /\ Len(last.log) = 2
  /\ last.log[1].dispatched
  /\ ParseYBMessage(BodyOf(2)).status = "OK"
  /\ ~ParseYBMessage(BodyOf(2)).header.has_remote_method
  /\ Len(calls) = 1 /\ Len(inbound_queue) = 1

\* C8: when HandleCall returns an error for a frame, ProcessCalls returns that
\* error and the failing frame is the last one handed to HandleCall.
C8_StopsAtFirstError ==
  last.ran =>
    \A k \in 1..Len(last.log) :
      last.log[k].status # "OK" =>
        /\ k = Len(last.log)
        /\ last.status = last.log[k].status

\* C8 witness: HandleCall failed on the first of two frames that were both
\* complete in the buffer.
C8_Witness ==
  /\ last.ran
  /\ Len(last.log) = 1
  /\ last.log[1].status # "OK"
  /\ Len(CompleteFrames(last.slice)) = 2

\* C9: every slice handed to HandleCall is as long as the 4-byte big-endian
\* prefix in front of it declares and lies inside the bytes presented to
\* ProcessCalls; every call that was constructed and kept holds such a body.
C9_NoPartialFrameHanded ==
  /\ last.ran =>
       \A k \in 1..Len(last.log) :
         /\ last.log[k].start >= kMsgLengthPrefixLength
         /\ last.log[k].len = Load32(last.slice, last.log[k].start - kMsgLengthPrefixLength)
         /\ last.log[k].start + last.log[k].len <= Len(last.slice)
  /\ \A i \in 1..Len(calls) :
       \E k \in 1..Len(handed) :
         /\ calls[i].request_data = handed[k]
         /\ handed[k] = CompleteFrames(delivered)[k]

\* C9 witness: a frame was handed to HandleCall while a partial frame, with
\* its prefix complete, was waiting behind it.
C9_Witness ==
  /\ last.ran /\ last.status = "OK"
  /\ Len(last.log) = 1
  /\ Len(calls) = 1
  /\ Len(last.slice) - last.consumed > kMsgLengthPrefixLength


(***************************************************************************)
(* Properties of responding.                                               *)
(***************************************************************************)

\* C4: a call is responded to at most once: whatever responders are invoked
\* on a call, at most one response is serialized and queued for it, a further
\* invocation being prevented or ending the process as a detected defect.
C4_RespondedAtMostOnce ==
  \A i \in 1..Len(calls) : calls[i].serialized > 1 => crashed

\* C5: when SerializeResponseBuffer fails inside Respond, the response is
\* dropped: Respond queues nothing on the connection's outbound path.
C5_FailedSerializationDropped ==
  (last_respond.ran /\ last_respond.status # "OK") =>
    last_respond.outbound_after = last_respond.outbound_before

\* C6: every call on the connection's outbound queue has a non-empty response
\* buffer, so the CHECK_GT in Serialize holds when the connection writes it.
C6_QueuedBufferNonEmpty ==
  \A k \in 1..Len(outbound) : calls[outbound[k]].response_buf.size > 0

\* Sizes of the first n sidecars of a call, summed.
SidecarBytesBefore(call, n) == SumSeq([m \in 1..n |-> Len(call.sidecars[m])])

\* C10: a serialized response of payload size P for a call with N sidecars has
\* N offsets in its header, offset i being P plus the sizes of the sidecars
\* before sidecar i (the first offset is P; no offsets without sidecars).
C10_SidecarOffsets ==
  \A i \in 1..Len(calls) :
    calls[i].response_buf.size > 0 =>
      /\ Len(calls[i].response_buf.sidecar_offsets) = Len(calls[i].sidecars)
      /\ \A j \in 1..Len(calls[i].sidecars) :
           calls[i].response_buf.sidecar_offsets[j] =
             calls[i].response_buf.payload.size + SidecarBytesBefore(calls[i], j - 1)

\* C10 witness: a 10-byte result serialized for a call with sidecars of 2 bytes
\* and 1 byte has the offsets 10 and 12.
C10_Witness ==
  \E i \in 1..Len(calls) :
    /\ calls[i].response_buf.size > 0
    /\ calls[i].response_buf.payload.size = 10
    /\ Len(calls[i].sidecars) = 2
    /\ Len(calls[i].sidecars[1]) = 2
    /\ Len(calls[i].sidecars[2]) = 1
    /\ calls[i].response_buf.sidecar_offsets = << 10, 12 >>


\* Total length of a sequence of byte buffers.
RECURSIVE TotalLen(_)
TotalLen(bufs) == IF bufs = << >> THEN 0 ELSE Len(Head(bufs)) + TotalLen(Tail(bufs))

\* C11: a finalized response handed to SerializeHeader, as the size the outer
\* length prefix covers after the header, payload size + the sizes of all
\* sidecars; Serialize emits the response buffer (header + payload) and then
\* the sidecars verbatim in their order, header_size + payload size + sum of
\* the sidecar sizes bytes in all.
C11_OutboundByteCount ==
  /\ \A i \in 1..Len(calls) :
       calls[i].response_buf.size > 0 =>
         /\ calls[i].response_buf.param_len =
              calls[i].response_buf.payload.size + TotalLen(calls[i].sidecars)
         /\ calls[i].response_buf.size =
              calls[i].response_buf.header_size + calls[i].response_buf.payload.size
  /\ sent # << >> =>
       /\ Tail(sent) = calls[1].sidecars
       /\ Head(sent).size + TotalLen(Tail(sent)) =
            Head(sent).header_size + Head(sent).payload.size + TotalLen(calls[1].sidecars)

\* C11 witness: a 10-byte result with sidecars of 2 bytes and 1 byte went out
\* as three buffers, header_size + 13 bytes in all.
C11_Witness ==
  /\ Len(sent) = 3
  /\ Head(sent).payload.size = 10
  /\ Len(sent[2]) = 2 /\ Len(sent[3]) = 1
  /\ Head(sent).param_len = 13
  /\ Head(sent).size + TotalLen(Tail(sent)) = Head(sent).header_size + 13


\* C12: for a call parsed from a header encoded without a timeout or with a
\* timeout of 0 GetClientDeadline returns MonoTime::Max(); for a header encoded
\* with a timeout of T > 0 milliseconds it returns the recorded arrival
\* timestamp plus T milliseconds; the recorded arrival timestamp is unchanged.
C12_ClientDeadline ==
  deadline.ran =>
    /\ \A id \in {1, 2}, T \in 0..MaxTimeoutMillis :
         /\ calls[deadline.call].request_data = BodyWithTimeout(id, << TRUE, T >>) =>
              deadline.value =
                IF T = 0 THEN MonoTimeMax
                ELSE MonoTimeOf(deadline.time_before + T * 1000000)
         /\ calls[deadline.call].request_data = BodyWithTimeout(id, << FALSE, 0 >>) =>
              deadline.value = MonoTimeMax
    /\ \E id \in {1, 2}, t \in Timeouts :
         calls[deadline.call].request_data = BodyWithTimeout(id, t)
    /\ calls[deadline.call].time_received = deadline.time_before

\* C12 witness: a call that arrived at time 1 with a timeout of 5 ms has the
\* deadline 5,000,001 ns.
C12_Witness ==
  /\ deadline.ran
  /\ calls[deadline.call].header.timeout_millis = 5
  /\ deadline.time_before = 1
  /\ deadline.value = MonoTimeOf(5000001)

\* C12 witness of the zero case: a header that carries a timeout of 0.
C12_WitnessZero ==
  /\ deadline.ran
  /\ calls[deadline.call].header.has_timeout_millis
  /\ calls[deadline.call].header.timeout_millis = 0
  /\ deadline.value = MonoTimeMax


\* What a failing ParseParam does to call i and to the connection: one more
\* entry for i on the outbound path, an error response with the code
\* ERROR_INVALID_REQUEST, and nothing else.
ParseParamFailureEffect(i) ==
  /\ outbound' = Append(outbound, i)
  /\ calls'[i].responds = 1
  /\ calls'[i].response_buf.is_error
  /\ calls'[i].response_buf.payload.code = "ERROR_INVALID_REQUEST"
  /\ \A j \in 1..Len(calls) : j # i => calls'[j] = calls[j]
  /\ Len(calls') = Len(calls)
  /\ UNCHANGED << direction, wire, delivered, read_buffer, consumed, closed, last,
                  handed, calls_being_handled, inbound_queue, client_responses >>

\* C13: a ParseParam whose payload does not decode queues exactly one response
\* for its call, with is_error = true and the code ERROR_INVALID_REQUEST, and
\* leaves the connection's frame processing state as it was; whatever calls
\* failed that way, a server connection whose invocations returned OK has
\* dispatched every complete frame that was delivered.
C13_ParseParamFailureIsCallScoped ==
  /\ [][HandlerParseParam => \E i \in Unanswered : ParseParamFailureEffect(i)]_vars
  /\ []((direction = "SERVER" /\ UpToDate) =>
          Len(inbound_queue) = Len(CompleteFrames(delivered)))

\* C13 witness: call 1 was answered by a failing ParseParam, and a later
\* ProcessCalls invocation, entered with that response on the outbound path,
\* dispatched the next frame as call 2.
C13_Witness ==
  /\ last.ran /\ last.status = "OK" /\ ~closed
  /\ Len(calls) = 2
  /\ calls[1].response_buf.size > 0
  /\ calls[1].response_buf.payload.code = "ERROR_INVALID_REQUEST"
  /\ calls[1].response_buf.is_error
  /\ last.outbound_before = << 1 >>
  /\ last.calls_before = 1 /\ last.calls_after = 2
  /\ inbound_queue = << 1, 2 >>


\* A step that serialized and queued, for some call, an error response that
\* carries the plain message without a structured payload.
PlainErrorQueued ==
  \E i \in Respondable :
    /\ outbound' = Append(outbound, i)
    /\ last_respond'.ran /\ last_respond'.call = i /\ last_respond'.status = "OK"
    /\ calls'[i].response_buf.size > 0
    /\ calls'[i].response_buf.is_error
    /\ calls'[i].response_buf.payload.kind = "error"
    /\ ~calls'[i].response_buf.payload.ext

\* The process aborted in the step and nothing was queued.
AbortedAtDefect ==
  /\ crashed' /\ ~crashed
  /\ UNCHANGED << calls, outbound, last_respond >>

\* C14 as stated: RespondApplicationError with an unknown extension id never
\* fails the response: an error response with the plain message is serialized
\* and queued.
C14_UnknownExtensionNeverFails ==
  [][RespondApplicationErrorWith(FALSE) => PlainErrorQueued]_vars

\* C14 amended: RespondApplicationError with an unknown extension id either
\* aborts the process at the defect log (a build in which DFATAL is fatal),
\* queuing nothing, or serializes and queues an error response with the plain
\* message and no structured payload.
C14_UnknownExtensionQueuesOrAborts ==
  [][RespondApplicationErrorWith(FALSE) => (AbortedAtDefect \/ PlainErrorQueued)]_vars

\* C14 witness: the first response of a call is an error response without
\* extension and without error code, as only RespondApplicationError with an
\* unknown extension id builds it, and it is on the outbound path.
C14_Witness ==
  /\ ~crashed
  /\ last_respond.ran /\ last_respond.status = "OK" /\ ~last_respond.is_success
  /\ calls[last_respond.call].responds = 1
  /\ calls[last_respond.call].response_buf.payload.kind = "error"
  /\ calls[last_respond.call].response_buf.payload.code = "none"
  /\ ~calls[last_respond.call].response_buf.payload.ext
  /\ outbound = << last_respond.call >>


\* The first four bytes of d read as a big-endian number.
BigEndian32(d) == ((d[1] * 256 + d[2]) * 256 + d[3]) * 256 + d[4]

\* C15: MaxReceive returns the big-packet threshold of 128 KB when fewer than
\* 4 bytes are buffered, and otherwise the larger of the threshold and the
\* declared body length + 4, the first 4 bytes read as big-endian; a
\* ProcessCalls invocation on fewer bytes than the hint that meets no oversize
\* prefix and no failing frame returns OK and consumes complete frames only.
C15_MaxReceiveHint ==
  /\ hint.ran =>
       hint.value =
         IF Len(hint.existing_data) < 4 THEN 128 * 1024
         ELSE IF BigEndian32(hint.existing_data) + 4 > 128 * 1024
              THEN BigEndian32(hint.existing_data) + 4
              ELSE 128 * 1024
  /\ (last.ran /\ Len(last.slice) < MaxReceive(last.slice)
        /\ AllHandled(last.log) /\ ~OversizeAtStop) =>
       /\ last.status = "OK"
       /\ last.consumed = LogBytes(last.log)
       /\ CompleteFrames(DropFirst(last.slice, last.consumed)) = << >>

\* C15 witness: the hint for a buffer holding a prefix of 5 and part of the
\* body is the threshold, and ProcessCalls, invoked on those bytes, returned
\* OK and consumed nothing.
C15_Witness ==
  /\ hint.ran
  /\ Len(hint.existing_data) > 4
  /\ BigEndian32(hint.existing_data) = 5
  /\ hint.value = kBigPacket
  /\ last.ran /\ last.slice = hint.existing_data
  /\ last.status = "OK" /\ last.consumed = last.consumed_in

\* C15, the branch above the threshold: a declared body length of 128 KB - 3
\* gives the hint 128 KB + 1.
C15_WitnessAboveThreshold ==
  /\ hint.ran
  /\ Len(hint.existing_data) >= 4
  /\ hint.value = kBigPacket + 1


\* A worker's responder step: some unanswered call is queued on the outbound
\* path, and that is all the connection sees of it.
ResponderOnlyQueues ==
  \E i \in Unanswered :
    /\ outbound' = Append(outbound, i)
    /\ UNCHANGED << reactor, read_buffer, consumed, closed, last, handed,
                    calls_being_handled, inbound_queue, client_responses, sent >>

\* ProcessCalls returned OK having dispatched every complete frame of its slice.
ReturnedAfterHandOff ==
  /\ last.consumed = LogBytes(last.log)
  /\ CompleteFrames(DropFirst(last.slice, last.consumed)) = << >>
  /\ Len(last.queue_after) = Len(last.queue_before) + Len(last.log)

\* C16: ProcessCalls never waits for a handler: once the reactor thread is
\* inside ProcessCalls the invocation returns, in every interleaving with the
\* workers and with no assumption that a worker ever responds; an OK return
\* has dispatched every complete frame of the slice; and a responder running
\* on a worker changes, of the connection, only the outbound path.
C16_NeverWaitsForHandlers ==
  /\ (reactor.running ~> ~reactor.running)
  /\ []((last.ran /\ last.status = "OK") => ReturnedAfterHandOff)
  /\ [][(HandlerParseParam \/ HandlerSuccess) => ResponderOnlyQueues]_vars

\* C16 witness: ProcessCalls returned OK after dispatching two calls, neither
\* of which has been responded to.
C16_Witness ==
  /\ ~reactor.running
  /\ last.ran /\ last.status = "OK"
  /\ Len(last.log) = 2
  /\ Len(calls) = 2
  /\ calls[1].responds = 0 /\ calls[2].responds = 0
  /\ outbound = << >>

\* C16, an interleaving: a worker responded to call 1 while the reactor thread
\* was inside the invocation that dispatched it, before the second frame.
C16_WitnessInterleaved ==
  /\ reactor.running
  /\ Len(reactor.log) = 1
  /\ reactor.before.calls = 0
  /\ Len(calls) = 1 /\ calls[1].responds = 1
  /\ outbound = << 1 >>


(***************************************************************************)
(* Properties of the order of the steps of HandleInboundCall.              *)
(***************************************************************************)

\* Frame k of the latest invocation parsed as a request and Store refused it.
StoreFailed(k) == ~ParseFails(BodyOf(k)) /\ ~last.log[k].stored

\* The calls the latest invocation registered, in the order of registration.
NewCalls == [n \in 1..(last.calls_after - last.calls_before) |-> last.calls_before + n]

\* C17: on the server leg a frame is registered only if it parsed and
\* dispatched only if it was registered, the calls an invocation dispatches
\* being the calls it registered, in that order; a frame that parsed and that
\* Store refused is not dispatched, is the last frame handled and its error is
\* what ProcessCalls returns.  Every call at the dispatch boundary is a parsed
\* call of the connection.
C17_ParseStoreDispatch ==
  /\ (last.ran /\ direction = "SERVER") =>
       /\ \A k \in 1..Len(last.log) :
            /\ last.log[k].stored => ~ParseFails(BodyOf(k))
            /\ last.log[k].dispatched => last.log[k].stored
            /\ StoreFailed(k) =>
                 /\ ~last.log[k].dispatched
                 /\ last.log[k].status # "OK"
                 /\ last.status = last.log[k].status
                 /\ k = Len(last.log)
       /\ last.calls_after = last.calls_before + Cardinality(StoredFrames)
       /\ last.queue_after = last.queue_before \o NewCalls
  /\ \A j \in 1..Len(inbound_queue) :
       /\ inbound_queue[j] \in 1..Len(calls)
       /\ ~ParseFails(calls[inbound_queue[j]].request_data)
       /\ calls[inbound_queue[j]].remote_method >= 1

\* C17 witness: the first request was registered and dispatched, the second,
\* a well-formed request with the same call id, was refused by Store: the
\* invocation failed and one call is at the dispatch boundary.
C17_Witness ==
  /\ last.ran /\ direction = "SERVER" /\ closed
  /\ Len(last.log) = 2
  /\ last.log[1].dispatched
  /\ StoreFailed(2)
  /\ last.status = "NetworkError"
  /\ Len(calls) = 1 /\ inbound_queue = << 1 >>


(***************************************************************************)
(* Properties of the response header.                                      *)
(***************************************************************************)

\* The latest Respond put its call on the connection's outbound queue.
RespondQueued ==
  /\ last_respond.ran
  /\ last_respond.outbound_after = Append(last_respond.outbound_before, last_respond.call)

\* C18: every response a call queues carries a header that echoes the call id
\* of the request header the call was parsed from, with is_error false exactly
\* when the responder was RespondSuccess (Respond(response, true)) and true
\* when it was RespondFailure, RespondApplicationError, RespondBadMethod or a
\* failed ParseParam (Respond(err, false)).
C18_HeaderEchoesIdAndFlag ==
  RespondQueued =>
    /\ calls[last_respond.call].response_buf.size > 0
    /\ calls[last_respond.call].response_buf.call_id
         = ExtractCallId(calls[last_respond.call])
    /\ calls[last_respond.call].response_buf.is_error = ~last_respond.is_success

\* The same for the responses whose serialization succeeded.
SerializedHeaderEchoesIdAndFlag ==
  (RespondQueued /\ last_respond.status = "OK") =>
    /\ calls[last_respond.call].response_buf.size > 0
    /\ calls[last_respond.call].response_buf.call_id
         = ExtractCallId(calls[last_respond.call])
    /\ calls[last_respond.call].response_buf.is_error = ~last_respond.is_success

\* A call was queued by RespondSuccess while its buffer holds the error
\* response an earlier RespondFailure serialized.
StaleErrorQueuedBySuccess ==
  /\ RespondQueued
  /\ last_respond.is_success
  /\ last_respond.status # "OK"
  /\ calls[last_respond.call].response_buf.size > 0
  /\ calls[last_respond.call].response_buf.is_error
  /\ ~crashed


(***************************************************************************)
(* Properties of the order of dispatch.                                    *)
(***************************************************************************)

\* The request bodies of the calls at the dispatch boundary, in queue order.
DispatchedBodies == [j \in 1..Len(inbound_queue) |-> calls[inbound_queue[j]].request_data]

\* C19: on the server leg, with a caller that discards exactly the consumed
\* prefix after each successful invocation, the calls handed to the dispatch
\* boundary are, in order, the leading complete frames of the connection's
\* byte stream, within one invocation and across invocations: no call is
\* queued twice, no frame is dispatched twice, none is skipped, and once an
\* invocation has seen every delivered byte all complete frames are dispatched.
C19_DispatchInStreamOrder ==
  direction = "SERVER" =>
    /\ inbound_queue = [j \in 1..Len(inbound_queue) |-> j]
    /\ Len(inbound_queue) <= Len(CompleteFrames(delivered))
    /\ DispatchedBodies = SubSeq(CompleteFrames(delivered), 1, Len(inbound_queue))
    /\ UpToDate => Len(inbound_queue) = Len(CompleteFrames(delivered))
    /\ last.ran =>
         /\ Len(last.queue_before) <= Len(last.queue_after)
         /\ last.queue_before = SubSeq(last.queue_after, 1, Len(last.queue_before))

\* C19 witness: two requests with different call ids were dispatched by two
\* successive invocations, one each, in the order of the stream.
C19_Witness ==
  /\ direction = "SERVER" /\ UpToDate
  /\ last.queue_before = << 1 >> /\ last.queue_after = << 1, 2 >>
  /\ inbound_queue = << 1, 2 >>
  /\ ExtractCallId(calls[1]) = 1 /\ ExtractCallId(calls[2]) = 2
  /\ DispatchedBodies = CompleteFrames(delivered)

\* Two requests of one slice were dispatched by a single invocation.
C19_WitnessOneInvocation ==
  /\ direction = "SERVER" /\ UpToDate
  /\ last.queue_before = << >> /\ last.queue_after = << 1, 2 >>
  /\ DispatchedBodies = CompleteFrames(delivered)


(***************************************************************************)
(* Properties of an error return that follows handled frames.              *)
(***************************************************************************)

\* Frames of the latest invocation that HandleCall handled without error.
HandledFrames == { k \in 1..Len(last.log) : last.log[k].status = "OK" }

\* The latest invocation returned an error after handling at least one frame.
ErrorAfterHandled == last.ran /\ last.status # "OK" /\ HandledFrames # {}

\* C20: when ProcessCalls returns an error (oversize frame or HandleCall
\* failure) after handling k >= 1 frames of the slice, those frames were handed
\* to HandleCall, and on the server leg registered and dispatched, while the
\* consumed output was not written: the caller's variable keeps the value it
\* had on entry, which does not count the k handled frames.
C20_ErrorAfterHandledFrames ==
  ErrorAfterHandled =>
    /\ last.consumed = last.consumed_in
    /\ consumed = last.consumed_in
    /\ HandledFrames = 1..Cardinality(HandledFrames)
    /\ Len(handed) >= Len(last.log)
    /\ \A k \in 1..Len(last.log) :
         handed[Len(handed) - Len(last.log) + k] = BodyOf(k)
    /\ direction = "SERVER" =>
         /\ \A k \in HandledFrames : last.log[k].stored /\ last.log[k].dispatched
         /\ Len(last.queue_after) = Len(last.queue_before) + Cardinality(HandledFrames)
         /\ inbound_queue = last.queue_after
         /\ \A k \in HandledFrames :
              calls[last.queue_after[Len(last.queue_before) + k]].request_data = BodyOf(k)

\* C20 witness: a request was dispatched and the frame after it failed in
\* HandleCall; the caller's consumed value 1 is still there.
C20_Witness ==
  /\ ErrorAfterHandled /\ direction = "SERVER" /\ closed
  /\ Len(last.log) = 2 /\ HandledFrames = {1}
  /\ last.log[2].status # "OK"
  /\ last.consumed_in = 1 /\ consumed = 1
  /\ inbound_queue = << 1 >>

\* The same with the oversize error after the handled frame.
C20_WitnessOversize ==
  /\ ErrorAfterHandled /\ direction = "SERVER" /\ closed
  /\ Len(last.log) = 1 /\ HandledFrames = {1}
  /\ OversizeAtStop /\ last.status = "NetworkError"
  /\ last.consumed_in = 1 /\ consumed = 1
  /\ inbound_queue = << 1 >>

=============================================================================
